---- MODULE Spec2Model ----
(***************************************************************************)
(* Model of task1_identify_departments_high_satisfaction.py: a Spark job   *)
(* that loads employee survey rows, counts per department the employees    *)
(* with SatisfactionRating > 4 and EngagementLevel = 'High', joins the     *)
(* two counts, computes a percentage, keeps the departments whose          *)
(* percentage exceeds the literal 5, rounds and writes them.               *)
(*                                                                         *)
(* A nullable SQL value is a sequence of length at most one: <<>> is SQL   *)
(* NULL and <<v>> is the value v.  A DataFrame is a sequence of rows; its  *)
(* order is the order in which rows are produced and carries no meaning.   *)
(* A DOUBLE is modelled by the exact rational it approximates, as a        *)
(* reduced fraction [n, d]; within the bounds of the model (at most a      *)
(* handful of rows per department) the double comparison with 5 and the    *)
(* rounding to two decimals agree with the exact ones.                     *)
(* The columns JobTitle, ReportsConcerns and ProvidedSuggestions are read  *)
(* by no expression of the job and are left out of the rows.               *)
(***************************************************************************)
EXTENDS Integers, Sequences, FiniteSets, TLC

VARIABLES pc, ansi, steps, df, high_satisfaction_df, total_employees_df,
          high_satisfaction_count_df, joined_df, percentage_df, result_df,
          sink, writes

vars == <<pc, ansi, steps, df, high_satisfaction_df, total_employees_df,
          high_satisfaction_count_df, joined_df, percentage_df, result_df,
          sink, writes>>

frames == <<high_satisfaction_df, total_employees_df,
            high_satisfaction_count_df, joined_df, percentage_df, result_df>>

(* ---------------------------- bounds ----------------------------------- *)

\* Largest number of rows the input file holds.
MaxRows == 2

\* Largest number of rows of an input drawn from the narrower set of rows.
MaxLongRows == 3

(* ------------------------ SQL values ----------------------------------- *)

NULL == <<>>

Some(v) == <<v>>

\* The literal 4 of the filter column expression.
MinRating == 4

\* The literal 5 the Percentage column is compared with.
Threshold == 5

\* The number of decimals the emitted percentage is rounded to.
RoundScale == 2

\* The factor that turns the ratio into a percentage.
Hundred == 100

HighLiteral == "High"

\* col > literal: NULL when an operand is NULL.
GT(a, b) == IF a = NULL \/ b = NULL THEN NULL ELSE Some(a[1] > b[1])

\* col == literal on strings: NULL when an operand is NULL, exact otherwise.
EQ(a, b) == IF a = NULL \/ b = NULL THEN NULL ELSE Some(a[1] = b[1])

\* The & of two column expressions: Kleene conjunction.
AND3(a, b) ==
    IF a = Some(FALSE) \/ b = Some(FALSE) THEN Some(FALSE)
    ELSE IF a = NULL \/ b = NULL THEN NULL
    ELSE Some(TRUE)

\* filter keeps a row only when its condition evaluates to TRUE.
IsTrue(c) == c = Some(TRUE)

(* ------------------------ the input ------------------------------------ *)

EmployeeIDs == {NULL, Some(1)}

Departments == {NULL, Some(""), Some("Eng")}

SatisfactionRatings == {NULL, Some(4), Some(5)}

EngagementLevels == {NULL, Some("High"), Some("high")}

\* The rows the CSV reader can produce under the declared schema: every
\* column is nullable (a missing or unparsable field becomes NULL).
Rows ==
    [EmployeeID : EmployeeIDs, Department : Departments,
     SatisfactionRating : SatisfactionRatings,
     EngagementLevel : EngagementLevels]

Inputs == UNION {[1..n -> Rows] : n \in 0..MaxRows}

\* Longer files over fewer kinds of rows: with or without an EmployeeID, in
\* the NULL department or in "Eng", qualifying or one rating point short.
LongRows ==
    [EmployeeID : EmployeeIDs, Department : {NULL, Some("Eng")},
     SatisfactionRating : {Some(4), Some(5)},
     EngagementLevel : {Some("High")}]

LongInputs == UNION {[1..n -> LongRows] : n \in 0..MaxLongRows}

(* ------------------- the column expressions ---------------------------- *)

HighCond_ge(r) ==
    AND3(GT(r.SatisfactionRating, Some(MinRating - 1)),
         EQ(r.EngagementLevel, Some(HighLiteral)))

\* (col("SatisfactionRating") > 4) & (col("EngagementLevel") == "High")
HighCond(r) ==
    AND3(GT(r.SatisfactionRating, Some(MinRating)),
         EQ(r.EngagementLevel, Some(HighLiteral)))

RECURSIVE TakeWhileHigh(_)
TakeWhileHigh(d) ==
    IF d = <<>> \/ ~IsTrue(HighCond(Head(d))) THEN <<>>
    ELSE <<Head(d)>> \o TakeWhileHigh(Tail(d))

\* df.filter(...)
FilterHigh(d) == SelectSeq(d, LAMBDA r : IsTrue(HighCond(r)))

RECURSIVE DistinctKeys(_)
\* The grouping keys of groupBy("Department"), one per distinct value in
\* order of first appearance; NULL is a grouping key like any other.
DistinctKeys(d) ==
    IF d = <<>> THEN <<>>
    ELSE LET front == DistinctKeys(SubSeq(d, 1, Len(d) - 1))
             k == d[Len(d)].Department
         IN IF \E i \in DOMAIN front : front[i] = k THEN front
            ELSE Append(front, k)

\* count("EmployeeID") within one group: the rows whose EmployeeID is not NULL.
CountEmployeeID(d, k) ==
    Len(SelectSeq(d, LAMBDA r : r.Department = k /\ r.EmployeeID # NULL))

\* d.groupBy("Department").agg(count("EmployeeID"))
GroupByCount(d) ==
    LET keys == DistinctKeys(d)
    IN [i \in 1..Len(keys) |->
            [Department |-> keys[i], cnt |-> CountEmployeeID(d, keys[i])]]

RECURSIVE Flatten(_)
Flatten(ss) == IF ss = <<>> THEN <<>> ELSE Head(ss) \o Flatten(Tail(ss))

\* The rows of the right table whose key equals the left key (NULL = NULL
\* is not TRUE, so a NULL key matches nothing).
Matches(l, R) == SelectSeq(R, LAMBDA r : IsTrue(EQ(l.Department, r.Department)))

InnerJoin(L, R) ==
    Flatten([i \in 1..Len(L) |->
        LET m == Matches(L[i], R)
        IN [j \in 1..Len(m) |->
                [Department |-> L[i].Department,
                 TotalEmployees |-> Some(L[i].cnt),
                 HighSatisfactionCount |-> Some(m[j].cnt)]]])

\* total_employees_df.join(high_satisfaction_count_df, "Department", "left_outer")
LeftOuterJoin(L, R) ==
    Flatten([i \in 1..Len(L) |->
        LET m == Matches(L[i], R)
        IN IF m = <<>>
           THEN <<[Department |-> L[i].Department,
                   TotalEmployees |-> Some(L[i].cnt),
                   HighSatisfactionCount |-> NULL]>>
           ELSE [j \in 1..Len(m) |->
                    [Department |-> L[i].Department,
                     TotalEmployees |-> Some(L[i].cnt),
                     HighSatisfactionCount |-> Some(m[j].cnt)]]])

RECURSIVE GCD(_, _)
GCD(a, b) == IF b = 0 THEN a ELSE GCD(b, a % b)

\* The double nearest to n/d, as the reduced fraction.
Rat(n, d) == LET g == GCD(n, d) IN [n |-> n \div g, d |-> d \div g]

\* a / b raises DIVIDE_BY_ZERO: only with spark.sql.ansi.enabled, when both
\* operands are present and the divisor is zero.
DivRaises(a, b, ansiOn) == ansiOn /\ b # NULL /\ a # NULL /\ b[1] = 0

\* a / b as DOUBLE: NULL when an operand is NULL or the divisor is zero.
Div(a, b) ==
    IF b = NULL \/ a = NULL \/ b[1] = 0 THEN NULL ELSE Some(Rat(a[1], b[1]))

\* x * 100
Times(x, k) == IF x = NULL THEN NULL ELSE Some(Rat(x[1].n * k, x[1].d))

\* (col("HighSatisfactionCount") / col("TotalEmployees")) * 100
PercentageOf(j) == Times(Div(j.HighSatisfactionCount, j.TotalEmployees), Hundred)

\* joined_df.withColumn("Percentage", ...)
WithPercentage(J) ==
    [i \in 1..Len(J) |->
        [Department |-> J[i].Department,
         TotalEmployees |-> J[i].TotalEmployees,
         HighSatisfactionCount |-> J[i].HighSatisfactionCount,
         Percentage |-> PercentageOf(J[i])]]

\* The evaluation of the Percentage column raises on some row.
PercentageRaises(J, ansiOn) ==
    \E i \in DOMAIN J :
        DivRaises(J[i].HighSatisfactionCount, J[i].TotalEmployees, ansiOn)

\* col("Percentage") > 5 on a DOUBLE column
AboveThreshold(p) ==
    IF p = NULL THEN NULL ELSE Some(p[1].n > Threshold * p[1].d)

Scale == 10 ^ RoundScale

\* round(Percentage, 2), half up, in hundredths of a percent.
SparkRound(p) ==
    IF p = NULL THEN NULL
    ELSE Some((2 * p[1].n * Scale + p[1].d) \div (2 * p[1].d))

\* .filter(col("Percentage") > 5).select("Department", "Percentage")
\* followed by .withColumn("Percentage", spark_round("Percentage", 2))
FilterSelectRound(P) ==
    LET kept == SelectSeq(P, LAMBDA r : IsTrue(AboveThreshold(r.Percentage)))
    IN [i \in 1..Len(kept) |->
            [Department |-> kept[i].Department,
             Percentage |-> SparkRound(kept[i].Percentage)]]

\* identify_departments_high_satisfaction(df), as the DataFrame it returns.
IdentifyResult(d) ==
    FilterSelectRound(WithPercentage(
        LeftOuterJoin(GroupByCount(d), GroupByCount(FilterHigh(d)))))

\* identify_departments_high_satisfaction(df) raises at result_df.show(10).
IdentifyRaises(d, ansiOn) ==
    PercentageRaises(
        LeftOuterJoin(GroupByCount(d), GroupByCount(FilterHigh(d))), ansiOn)

Header == <<"Department", "Percentage">>

(* --------------------------- the job ----------------------------------- *)

Init ==
    /\ pc = "start"
    /\ ansi = FALSE
    /\ steps = <<>>
    /\ df = <<>>
    /\ high_satisfaction_df = <<>>
    /\ total_employees_df = <<>>
    /\ high_satisfaction_count_df = <<>>
    /\ joined_df = <<>>
    /\ percentage_df = <<>>
    /\ result_df = <<>>
    /\ sink = <<>>
    /\ writes = 0

\* initialize_spark(): the session takes its SQL configuration from the
\* installation, with or without ANSI mode.
InitializeSpark ==
    /\ pc = "start"
    /\ \E a \in BOOLEAN : ansi' = a
    /\ pc' = "session"
    /\ steps' = Append(steps, "initialize_spark")
    /\ UNCHANGED <<df, frames, sink, writes>>

\* load_data(spark, input_file) returns the rows of the file.
LoadData ==
    /\ pc = "session"
    /\ \E rows \in Inputs : df' = rows
    /\ pc' = "loaded"
    /\ steps' = Append(steps, "load_data")
    /\ UNCHANGED <<ansi, frames, sink, writes>>

\* load_data(spark, input_file) on a longer file of the narrower rows.
LoadLongData ==
    /\ pc = "session"
    /\ \E rows \in LongInputs : df' = rows
    /\ pc' = "loaded"
    /\ steps' = Append(steps, "load_data")
    /\ UNCHANGED <<ansi, frames, sink, writes>>

\* load_data raises (the input path cannot be read); main has no handler.
LoadDataFails ==
    /\ pc = "session"
    /\ pc' = "failed"
    /\ steps' = Append(steps, "load_data")
    /\ UNCHANGED <<ansi, df, frames, sink, writes>>

\* identify_departments_high_satisfaction(df): every DataFrame it builds, or
\* the exception of its Percentage column, which main does not handle.
Identify ==
    /\ pc = "loaded"
    /\ steps' = Append(steps, "identify")
    /\ IF IdentifyRaises(df, ansi)
       THEN /\ pc' = "failed"
            /\ UNCHANGED frames
       ELSE /\ pc' = "identified"
            /\ high_satisfaction_df' = FilterHigh(df)
            /\ total_employees_df' = GroupByCount(df)
            /\ high_satisfaction_count_df' = GroupByCount(FilterHigh(df))
            /\ joined_df' =
                 LeftOuterJoin(GroupByCount(df), GroupByCount(FilterHigh(df)))
            /\ percentage_df' =
                 WithPercentage(
                   LeftOuterJoin(GroupByCount(df), GroupByCount(FilterHigh(df))))
            /\ result_df' = IdentifyResult(df)
    /\ UNCHANGED <<ansi, df, sink, writes>>

WriteOutput_early ==
    /\ pc \in {"loaded", "identified"}
    /\ sink' = <<[header |-> Header, rows |-> result_df]>>
    /\ writes' = writes + 1
    /\ pc' = "written"
    /\ steps' = Append(steps, "write_output")
    /\ UNCHANGED <<ansi, df, frames>>

WriteOutput_skipEmpty ==
    /\ pc = "identified"
    /\ IF result_df = <<>>
       THEN UNCHANGED <<sink, writes>>
       ELSE /\ sink' = <<[header |-> Header, rows |-> result_df]>>
            /\ writes' = writes + 1
    /\ pc' = "written"
    /\ steps' = Append(steps, "write_output")
    /\ UNCHANGED <<ansi, df, frames>>

\* write_output(result_df, output_file): one CSV with a header row, replacing
\* whatever the path held.
WriteOutput ==
    /\ pc = "identified"
    /\ sink' = <<[header |-> Header, rows |-> result_df]>>
    /\ writes' = writes + 1
    /\ pc' = "written"
    /\ steps' = Append(steps, "write_output")
    /\ UNCHANGED <<ansi, df, frames>>

\* spark.stop()
Stop ==
    /\ pc = "written"
    /\ pc' = "stopped"
    /\ steps' = Append(steps, "stop")
    /\ UNCHANGED <<ansi, df, frames, sink, writes>>

Next ==
    \/ InitializeSpark
    \/ LoadData
    \/ LoadDataFails
    \/ Identify
    \/ WriteOutput
    \/ Stop

Spec == Init /\ [][Next]_vars

NextLong ==
    \/ InitializeSpark
    \/ LoadLongData
    \/ LoadDataFails
    \/ Identify
    \/ WriteOutput
    \/ Stop

SpecLong == Init /\ [][NextLong]_vars

(* ---------------- vocabulary of the properties ------------------------- *)

\* The two-valued predicate of the specification: rating above 4 and the
\* engagement level exactly "High"; a missing value does not qualify.
Qualifies(r) ==
    /\ r.SatisfactionRating # NULL
    /\ r.SatisfactionRating[1] > 4
    /\ r.EngagementLevel # NULL
    /\ r.EngagementLevel[1] = "High"

\* The department values of the input, the records of one department and
\* the qualifying ones among them, counted record by record.
DeptsOf(d) == {d[i].Department : i \in DOMAIN d}

NumRecords(d, k) == Cardinality({i \in DOMAIN d : d[i].Department = k})

NumQualifying(d, k) ==
    Cardinality({i \in DOMAIN d : d[i].Department = k /\ Qualifies(d[i])})

AsSet(R) == {R[i] : i \in DOMAIN R}

OutDepts(R) == {R[i].Department : i \in DOMAIN R}

RowsOf(R, k) == {i \in DOMAIN R : R[i].Department = k}

\* identify_departments_high_satisfaction has returned.
Done == pc \in {"identified", "written", "stopped"}

\* load_data has returned the rows of the input.
InputRead == Len(steps) >= 2 /\ ~(pc = "failed" /\ Len(steps) = 2)

FullOrder == <<"initialize_spark", "load_data", "identify", "write_output", "stop">>

PermutationsOf(n) ==
    {p \in [1..n -> 1..n] : \A i, j \in 1..n : p[i] = p[j] => i = j}

Permute(d, p) == [i \in 1..Len(d) |-> d[p[i]]]

\* The sum-merge of two partial count tables, per grouping key.
CntIn(T, k) == IF RowsOf(T, k) = {} THEN 0 ELSE T[CHOOSE i \in RowsOf(T, k) : TRUE].cnt

MergeCounts(A, B) ==
    [i \in 1..Len(A) |->
        [Department |-> A[i].Department,
         cnt |-> A[i].cnt + CntIn(B, A[i].Department)]]
    \o SelectSeq(B, LAMBDA r : RowsOf(A, r.Department) = {})

RECURSIVE Pick(_, _)
\* The rows of d at the positions in S, in their order.
Pick(d, S) ==
    IF d = <<>> THEN <<>>
    ELSE Pick(SubSeq(d, 1, Len(d) - 1), S)
            \o (IF Len(d) \in S THEN <<d[Len(d)]>> ELSE <<>>)

\* The output computed from the counts of the rows at the positions in S
\* and the counts of the other rows, sum-merged.
SplitResult(d, S) ==
    LET one == Pick(d, S)
        two == Pick(d, DOMAIN d \ S)
    IN FilterSelectRound(WithPercentage(LeftOuterJoin(
           MergeCounts(GroupByCount(one), GroupByCount(two)),
           MergeCounts(GroupByCount(FilterHigh(one)), GroupByCount(FilterHigh(two))))))

(* ----------------------------- C1 -------------------------------------- *)

\* C1: for every input, a department is returned if and only if its ratio
\* of qualifying records to records, times 100 and unrounded, is strictly
\* greater than 5.
C1_ReturnedIffAboveFive ==
    Done =>
        \A k \in DeptsOf(df) :
            (k \in OutDepts(result_df))
                <=> (NumQualifying(df, k) * 100 > 5 * NumRecords(df, k))

(* ----------------------------- C2 -------------------------------------- *)

\* C2: every returned department has more than 50% of its employees
\* qualifying.
C2_ReturnedAboveFifty ==
    Done =>
        \A i \in DOMAIN result_df :
            NumQualifying(df, result_df[i].Department) * 100
                > 50 * NumRecords(df, result_df[i].Department)

(* ----------------------------- C3 -------------------------------------- *)

\* C3: a record is kept by the filter (and so counted as qualifying) if and
\* only if its rating is above 4 and its engagement level is exactly "High";
\* on a record with a missing rating or level the condition still evaluates
\* (to a value that is not TRUE) and the record is not kept.
C3_QualifiesExactly ==
    /\ InputRead =>
          \A i \in DOMAIN df :
              /\ HighCond(df[i]) \in {NULL, Some(TRUE), Some(FALSE)}
              /\ IsTrue(HighCond(df[i])) <=> Qualifies(df[i])
    /\ Done =>
          /\ high_satisfaction_df = SelectSeq(df, Qualifies)
          /\ OutDepts(high_satisfaction_count_df)
                = {k \in DeptsOf(df) : NumQualifying(df, k) > 0}

C3_Witness ==
    /\ pc = "identified"
    /\ Len(df) = 2
    /\ df[1].SatisfactionRating = NULL /\ df[1].EngagementLevel = Some("High")
    /\ df[2].SatisfactionRating = Some(5) /\ df[2].EngagementLevel = Some("high")
    /\ high_satisfaction_df = <<>>

(* ----------------------------- C4 -------------------------------------- *)

\* Every department of the input has exactly one row in the joined table,
\* and the joined table has no other row.
ExactlyOnce(T) ==
    /\ \A k \in DeptsOf(df) : Cardinality(RowsOf(T, k)) = 1
    /\ OutDepts(T) \subseteq DeptsOf(df)

C5_TotalIsRecordCount ==
    Done =>
        \A i \in DOMAIN total_employees_df :
            total_employees_df[i].cnt
                = NumRecords(df, total_employees_df[i].Department)

(* ----------------------------- C6 -------------------------------------- *)

\* C6: every aggregate has totalEmployees > 0 and a qualifying count between
\* 0 and the total, the percentage never divides by zero, and every emitted
\* percentage lies between 0 and 100.
C6_CountsInRange ==
    /\ InputRead => pc # "failed"
    /\ Done =>
          /\ \A i \in DOMAIN joined_df :
                /\ joined_df[i].TotalEmployees[1] > 0
                /\ joined_df[i].HighSatisfactionCount # NULL =>
                      /\ 0 <= joined_df[i].HighSatisfactionCount[1]
                      /\ joined_df[i].HighSatisfactionCount[1]
                            <= joined_df[i].TotalEmployees[1]
          /\ \A i \in DOMAIN result_df :
                /\ 0 <= result_df[i].Percentage[1]
                /\ result_df[i].Percentage[1] <= 100 * Scale

(* ----------------------------- C7 -------------------------------------- *)

\* C7: the records with a NULL or an empty department form a group like any
\* other: the group's total and qualifying counts both reach its row of the
\* joined table, and the group is returned when its ratio exceeds 5.
C7_NullDepartmentGrouped ==
    Done =>
        \A k \in {NULL, Some("")} \cap DeptsOf(df) :
            \A i \in RowsOf(joined_df, k) :
                /\ joined_df[i].TotalEmployees = Some(CntIn(total_employees_df, k))
                /\ RowsOf(high_satisfaction_count_df, k) # {} =>
                      /\ joined_df[i].HighSatisfactionCount
                            = Some(CntIn(high_satisfaction_count_df, k))
                      /\ CntIn(high_satisfaction_count_df, k) * 100
                            > 5 * CntIn(total_employees_df, k)
                         => k \in OutDepts(result_df)

(* ----------------------------- C8 -------------------------------------- *)

\* C8: the steps of a run occur in the order read, aggregate and filter,
\* write; the sink is written at most once, with the complete result of the
\* input; a run that failed has written nothing.
C8_WriteOnceInOrder ==
    /\ Len(steps) <= Len(FullOrder)
    /\ steps = SubSeq(FullOrder, 1, Len(steps))
    /\ writes <= 1
    /\ (sink # <<>>) <=> (writes = 1)
    /\ writes = 1 =>
          /\ pc \in {"written", "stopped"}
          /\ sink = <<[header |-> Header, rows |-> IdentifyResult(df)]>>
    /\ pc = "failed" => sink = <<>> /\ writes = 0

C8_Witness ==
    /\ pc = "stopped"
    /\ writes = 1
    /\ sink[1].rows # <<>>

(* ----------------------------- C9 -------------------------------------- *)

\* C9: the output set depends only on the multiset of input records: the
\* returned result is the one a second run computes, every permutation of
\* the input gives the same output set (and fails when the input does), and
\* so does counting any part of the input and the rest of it separately and
\* sum-merging the per-department counts.
C9_MultisetOnly ==
    /\ Done => result_df = IdentifyResult(df)
    /\ pc = "loaded" =>
          /\ \A p \in PermutationsOf(Len(df)) :
                /\ AsSet(IdentifyResult(Permute(df, p))) = AsSet(IdentifyResult(df))
                /\ IdentifyRaises(Permute(df, p), ansi) = IdentifyRaises(df, ansi)
          /\ \A S \in SUBSET DOMAIN df :
                AsSet(SplitResult(df, S)) = AsSet(IdentifyResult(df))

C9_Witness ==
    /\ pc = "loaded"
    /\ Len(df) = 3
    /\ df[1].Department = df[2].Department
    /\ df[1].Department # df[3].Department
    /\ ~Qualifies(df[1]) /\ Qualifies(df[2]) /\ Qualifies(df[3])
    /\ \A i \in DOMAIN df : df[i].EmployeeID # NULL
    /\ Len(IdentifyResult(df)) = 1

(* ----------------------------- C10 ------------------------------------- *)

\* C10: on an input of zero records every table of the job is empty, the
\* result is empty, the run does not fail, and what is written is the header
\* with no row.
C10_EmptyInput ==
    (InputRead /\ df = <<>>) =>
        /\ pc # "failed"
        /\ Done =>
              /\ high_satisfaction_df = <<>>
              /\ total_employees_df = <<>>
              /\ high_satisfaction_count_df = <<>>
              /\ joined_df = <<>>
              /\ percentage_df = <<>>
              /\ result_df = <<>>
        /\ pc \in {"written", "stopped"} =>
              sink = <<[header |-> Header, rows |-> <<>>]>>

C10_Witness ==
    /\ pc = "stopped"
    /\ InputRead
    /\ df = <<>>
    /\ sink # <<>>

====
